---- MODULE Spec2Model ----
\* A state-machine model of the request handlers of src/src/index.ts
\* ("second brain" backend): content ingestion (POST /api/v1/content),
\* content deletion (DELETE /api/v1/content/:contentId), semantic search
\* (POST /api/v1/search) and brain sharing (POST /api/v1/brain/share,
\* GET /api/v1/brain/:shareLink).
\*
\* Every handler is an async function: each `await` is a point where the
\* runtime may interleave other requests, so a handler is modelled as one
\* action per awaited call, and a request is a slot holding the handler's
\* position (pc) and its locals.  The external collaborators (primary store,
\* vector index, embedder, generative model) may reject any call; a rejected
\* call is the input ok = FALSE of the step that awaits it.
EXTENDS Integers, Sequences, FiniteSets, TLC

\* ---------------------------------------------------------------- bounds
NumUsers == 2        \* users 1..NumUsers (req.userId set by the auth middleware)
MaxAdd == 2          \* POST /content requests in one run
MaxDel == 2          \* DELETE /content/:id requests in one run

Users == 1..NumUsers
AddReqs == 1..MaxAdd
DelReqs == 1..MaxDel

\* ObjectIds the primary store can assign: one per create.
ItemIds == 1..MaxAdd
\* A well-formed ObjectId the store never assigns (matches no item at all).
NoSuchId == MaxAdd + 1
\* 0 stands for a contentId that is not a well-formed ObjectId.
BadId == 0
ContentIdInputs == {BadId} \cup ItemIds \cup {NoSuchId}

VARIABLES
  contents,   \* primary store, ContentModel: set of [id, userId]
  vectors,    \* vector index, pineconeIndex: set of [id, userId]
  nextId,     \* the next ObjectId ContentModel.create assigns
  add,        \* POST /content requests: slot -> locals
  del,        \* DELETE /content/:id requests: slot -> locals
  srch,       \* the POST /search request being served: its locals
  links,      \* primary store, LinkModel: [userId, hash] in insertion order
  shr,        \* POST /brain/share requests: slot -> locals
  get,        \* the GET /brain/:shareLink request being served: its locals
  lastHash,   \* history: per user, the hash its last answered enable returned
  handed,     \* history: per user, the hashes enable requests returned to it
  revoked,    \* history: per user, the hashes returned to it before a disable
              \* that has since completed arrived, and not handed out again
  scr,        \* the scrapeUrl call in progress: its position and locals
  ing         \* the POST /content request followed field by field: its locals

contentVars == <<contents, vectors, nextId, add, del>>
searchVars == <<srch>>
shareVars == <<links, shr, get, lastHash, handed, revoked>>
ingestVars == <<scr, ing>>
vars == <<contents, vectors, nextId, add, del, srch,
          links, shr, get, lastHash, handed, revoked, scr, ing>>

\* ------------------------------------------------------- request records
IdleAdd == [pc |-> "idle", user |-> 0, cid |-> 0, failedAt |-> "none",
            status |-> 0, respId |-> 0]
IdleDel == [pc |-> "idle", user |-> 0, cid |-> 0, failedAt |-> "none",
            status |-> 0]

IdleSearch == [pc |-> "idle", user |-> 0,
               query |-> [present |-> FALSE, text |-> <<>>],
               calls |-> {}, matches |-> <<>>, kept |-> <<>>,
               failedAt |-> "none", status |-> 0, resp |-> "none"]

MaxShare == 3        \* POST /brain/share requests in one run
MaxHash == 2         \* distinct values random(10) can return

ShareReqs == 1..MaxShare
Hashes == 1..MaxHash

IdleShare == [pc |-> "idle", user |-> 0, share |-> FALSE, hash |-> 0,
              created |-> FALSE, prev |-> 0, snap |-> {}, status |-> 0]
IdleGet == [pc |-> "idle", hash |-> 0, owner |-> 0, revoked |-> FALSE,
            content |-> {}, status |-> 0]

\* A scrapeUrl call and the ingestion request that awaits it.
\* null (no image), and "" (the placeholder stored in vector metadata).
NullUrl == [scheme |-> "null", wellFormed |-> FALSE]
EmptyString == [scheme |-> "empty", wellFormed |-> FALSE]

\* An absent (undefined) field of a request body.
Undefined == "undefined"

IdleScrape ==
  [pc |-> "idle", browser |-> "none", failed |-> {}, navTimeout |-> FALSE,
   title |-> "", metaImage |-> NullUrl, finalImageUrl |-> NullUrl,
   content |-> "", result |-> [title |-> "", content |-> "", imageUrl |-> NullUrl],
   raised |-> FALSE, closeLogged |-> FALSE]

IdleIngest ==
  [pc |-> "idle", type |-> "", link |-> Undefined,
   title |-> Undefined, content |-> Undefined, scraped |-> FALSE,
   titleToSave |-> "", contentToSave |-> "", imageUrl |-> NullUrl,
   persisted |-> FALSE,
   saved |-> [title |-> "", content |-> "", imageUrl |-> NullUrl],
   indexed |-> FALSE,
   metadata |-> [title |-> "", imageUrl |-> EmptyString],
   status |-> 0, respImage |-> NullUrl]

InitIngestVars ==
  /\ scr = IdleScrape
  /\ ing = IdleIngest

InitShareVars ==
  /\ links = <<>>
  /\ shr = [r \in ShareReqs |-> IdleShare]
  /\ get = IdleGet
  /\ lastHash = [u \in Users |-> 0]
  /\ handed = [u \in Users |-> {}]
  /\ revoked = [u \in Users |-> {}]

\* Slots are taken in order: slot r starts only after slot r-1 has started.
MayStart(f, r) ==
  /\ f[r].pc = "idle"
  /\ IF r = 1 THEN TRUE ELSE f[r - 1].pc # "idle"

\* --------------------------------------------------------------- stores
HasItem(i) == \E c \in contents : c.id = i
HasVector(i) == \E v \in vectors : v.id = i

\* mongoose.Types.ObjectId.isValid(contentId)
IsValidObjectId(c) == c # BadId

\* pineconeIndex.upsert([{id, values, metadata}]): insert-or-replace by id.
PineconeUpsert(vs, rec) == {v \in vs : v.id # rec.id} \cup {rec}

\* pineconeIndex.deleteOne(id): removes the record with that id, whoever owns
\* it; tolerant of the id not existing.
PineconeDeleteOne(vs, id) == {v \in vs : v.id # id}

\* ContentModel.deleteOne({_id: contentId, userId: req.userId})
ContentDeleteOne(cs, id, user) == {c \in cs : ~(c.id = id /\ c.userId = user)}

Init ==
  /\ contents = {}
  /\ vectors = {}
  /\ nextId = 1
  /\ add = [r \in AddReqs |-> IdleAdd]
  /\ del = [r \in DelReqs |-> IdleDel]
  /\ srch = IdleSearch
  /\ InitShareVars
  /\ InitIngestVars

\* ------------------------------------------- POST /api/v1/content handler
\* The request arrives; the scrape/merge prologue touches no store.
AddStart(r, u) ==
  /\ MayStart(add, r)
  /\ add' = [add EXCEPT ![r] = [@ EXCEPT !.pc = "create", !.user = u]]
  /\ UNCHANGED <<contents, vectors, nextId, del, searchVars, shareVars, ingestVars>>

\* Mutant of AddCreate: a rejected create is swallowed; the handler goes on
\* with the _id of the document that was never saved.
AddCreateSwallow(r, ok) ==
  /\ add[r].pc = "create"
  /\ IF ok
       THEN /\ contents' = contents \cup {[id |-> nextId, userId |-> add[r].user]}
       ELSE /\ UNCHANGED contents
  /\ nextId' = nextId + 1
  /\ add' = [add EXCEPT ![r] = [@ EXCEPT !.pc = "embed", !.cid = nextId]]
  /\ UNCHANGED <<vectors, del, searchVars, shareVars, ingestVars>>

\* await ContentModel.create({...}); a rejection lands in the catch (500).
AddCreate(r, ok) ==
  /\ add[r].pc = "create"
  /\ IF ok
       THEN /\ contents' = contents \cup {[id |-> nextId, userId |-> add[r].user]}
            /\ nextId' = nextId + 1
            /\ add' = [add EXCEPT ![r] = [@ EXCEPT !.pc = "embed", !.cid = nextId]]
       ELSE /\ add' = [add EXCEPT ![r] = [@ EXCEPT !.pc = "done",
                          !.failedAt = "create", !.status = 500]]
            /\ UNCHANGED <<contents, nextId>>
  /\ UNCHANGED <<vectors, del, searchVars, shareVars, ingestVars>>

\* Mutant of AddEmbed: an embedding failure is swallowed and the handler goes
\* on to the upsert.
AddEmbedSwallow(r, ok) ==
  /\ add[r].pc = "embed"
  /\ add' = [add EXCEPT ![r] =
        IF ok THEN [@ EXCEPT !.pc = "upsert"]
              ELSE [@ EXCEPT !.pc = "upsert", !.failedAt = "embed"]]
  /\ UNCHANGED <<contents, vectors, nextId, del, searchVars, shareVars, ingestVars>>

\* await getEmbedding(textForEmbedding); a rejection lands in the catch (500).
AddEmbed(r, ok) ==
  /\ add[r].pc = "embed"
  /\ add' = [add EXCEPT ![r] =
        IF ok THEN [@ EXCEPT !.pc = "upsert"]
              ELSE [@ EXCEPT !.pc = "done", !.failedAt = "embed", !.status = 500]]
  /\ UNCHANGED <<contents, vectors, nextId, del, searchVars, shareVars, ingestVars>>

\* Mutant of AddUpsert: a failed upsert rolls the ContentItem back.
AddUpsertRollback(r, ok) ==
  /\ add[r].pc = "upsert"
  /\ IF ok
       THEN /\ vectors' = PineconeUpsert(vectors,
                              [id |-> add[r].cid, userId |-> add[r].user])
            /\ add' = [add EXCEPT ![r] = [@ EXCEPT !.pc = "done",
                          !.status = 200, !.respId = add[r].cid]]
            /\ UNCHANGED contents
       ELSE /\ add' = [add EXCEPT ![r] = [@ EXCEPT !.pc = "done",
                          !.failedAt = "upsert", !.status = 500]]
            /\ contents' = {c \in contents : c.id # add[r].cid}
            /\ UNCHANGED vectors
  /\ UNCHANGED <<nextId, del, searchVars, shareVars, ingestVars>>

\* await pineconeIndex.upsert([...]); then res.status(200) with contentId.
AddUpsert(r, ok) ==
  /\ add[r].pc = "upsert"
  /\ IF ok
       THEN /\ vectors' = PineconeUpsert(vectors,
                              [id |-> add[r].cid, userId |-> add[r].user])
            /\ add' = [add EXCEPT ![r] = [@ EXCEPT !.pc = "done",
                          !.status = 200, !.respId = add[r].cid]]
       ELSE /\ add' = [add EXCEPT ![r] = [@ EXCEPT !.pc = "done",
                          !.failedAt = "upsert", !.status = 500]]
            /\ UNCHANGED vectors
  /\ UNCHANGED <<contents, nextId, del, searchVars, shareVars, ingestVars>>

\* -------------------------------- DELETE /api/v1/content/:contentId handler
\* The request arrives; a missing or malformed id is answered 400 at once.
DelStart(r, u, c) ==
  /\ MayStart(del, r)
  /\ del' = [del EXCEPT ![r] =
        IF IsValidObjectId(c)
          THEN [@ EXCEPT !.pc = "mongo", !.user = u, !.cid = c]
          ELSE [@ EXCEPT !.pc = "done", !.user = u, !.cid = c, !.status = 400]]
  /\ UNCHANGED <<contents, vectors, nextId, add, searchVars, shareVars, ingestVars>>

\* await ContentModel.deleteOne({_id, userId}); a rejection lands in the catch.
DelMongo(r, ok) ==
  /\ del[r].pc = "mongo"
  /\ IF ok
       THEN /\ contents' = ContentDeleteOne(contents, del[r].cid, del[r].user)
            /\ del' = [del EXCEPT ![r] = [@ EXCEPT !.pc = "pinecone"]]
       ELSE /\ del' = [del EXCEPT ![r] = [@ EXCEPT !.pc = "done",
                          !.failedAt = "mongo", !.status = 500]]
            /\ UNCHANGED contents
  /\ UNCHANGED <<vectors, nextId, add, searchVars, shareVars, ingestVars>>

\* await pineconeIndex.deleteOne(contentId); then res.json (200), or the catch.
DelPinecone(r, ok) ==
  /\ del[r].pc = "pinecone"
  /\ IF ok
       THEN /\ vectors' = PineconeDeleteOne(vectors, del[r].cid)
            /\ del' = [del EXCEPT ![r] = [@ EXCEPT !.pc = "done", !.status = 200]]
       ELSE /\ del' = [del EXCEPT ![r] = [@ EXCEPT !.pc = "done",
                          !.failedAt = "pinecone", !.status = 500]]
            /\ UNCHANGED vectors
  /\ UNCHANGED <<contents, nextId, add, searchVars, shareVars, ingestVars>>

AddNext ==
  \/ \E r \in AddReqs, u \in Users : AddStart(r, u)
  \/ \E r \in AddReqs, ok \in BOOLEAN : AddCreate(r, ok)
  \/ \E r \in AddReqs, ok \in BOOLEAN : AddEmbed(r, ok)
  \/ \E r \in AddReqs, ok \in BOOLEAN : AddUpsert(r, ok)

DelNext ==
  \/ \E r \in DelReqs, u \in Users, c \in ContentIdInputs : DelStart(r, u, c)
  \/ \E r \in DelReqs, ok \in BOOLEAN : DelMongo(r, ok)
  \/ \E r \in DelReqs, ok \in BOOLEAN : DelPinecone(r, ok)

Next == AddNext \/ DelNext

\* Ingestion and deletion requests of all users, interleaved at every await.
Spec == Init /\ [][Next]_vars

\* Ingestion requests only.
SpecAdd == Init /\ [][AddNext]_vars

\* ------------------------------------------------ POST /api/v1/search handler
MaxSeed == 4         \* ContentItems in the store a search runs against
MaxScore == 2        \* similarity scores 1..MaxScore reported by the index
MaxQueryLen == 2     \* characters in a query string

TopK == 5            \* topK of pineconeIndex.query
KeepN == 2           \* .slice(0, 2)

Scores == 1..MaxScore
Chars == {" ", "a"}

\* The values of req.body.query: missing, or a string.
Strings == UNION {[1..n -> Chars] : n \in 0..MaxQueryLen}
Queries == {[present |-> FALSE, text |-> <<>>]}
             \cup {[present |-> TRUE, text |-> t] : t \in Strings}

\* String.prototype.trim
RECURSIVE TrimLeft(_)
TrimLeft(t) ==
  IF t # <<>> /\ Head(t) = " " THEN TrimLeft(Tail(t)) ELSE t

RECURSIVE TrimRight(_)
TrimRight(t) ==
  IF t # <<>> /\ t[Len(t)] = " " THEN TrimRight(SubSeq(t, 1, Len(t) - 1)) ELSE t

Trim(t) == TrimRight(TrimLeft(t))

\* Mutant of IsBlankQuery: the query is tested for emptiness without trim().
IsBlankQueryNoTrim(q) == ~q.present \/ q.text = <<>>

\* !query || query.trim() === ""
IsBlankQuery(q) == ~q.present \/ q.text = <<>> \/ Trim(q.text) = <<>>

\* The store a search runs against: every add has succeeded; user 1 owns
\* every item but the last, which the last user owns.
SeedOwner(i) == IF i = MaxSeed THEN NumUsers ELSE 1
SeedContents == {[id |-> i, userId |-> SeedOwner(i)] : i \in 1..MaxSeed}
SeedVectors == SeedContents

\* What pineconeIndex.query may resolve to: at most topK matches, id -> score.
\* The handler passes filter {userId}; the index is an external service, and a
\* filter bypass in it is a response naming records of other users.
QueryResults ==
  UNION {[S -> Scores] :
           S \in {T \in SUBSET {v.id : v \in vectors} : Cardinality(T) <= TopK}}

\* Mutant of Hydrate: the primary-store read is not constrained to the owner.
HydrateAnyOwner(cs, ids, u) == {c \in cs : c.id \in ids}

\* ContentModel.find({_id: {$in: contentIds}, userId: userId})
Hydrate(cs, ids, u) == {c \in cs : c.id \in ids /\ c.userId = u}

\* The documents of a find(), in the store's order (ascending _id).
RECURSIVE InIdOrder(_)
InIdOrder(cs) ==
  IF cs = {} THEN <<>>
  ELSE LET c == CHOOSE x \in cs : \A y \in cs : x.id <= y.id
       IN <<c>> \o InIdOrder(cs \ {c})

\* match ? match.score : 0
ScoreOf(m, id) == IF id \in DOMAIN m THEN m[id] ELSE 0

WithScore(c, m) ==
  [id |-> c.id, userId |-> c.userId, similarityScore |-> ScoreOf(m, c.id)]

\* Array.prototype.sort((a, b) => b.similarityScore - a.similarityScore): stable.
RECURSIVE SortByScoreDesc(_)
SortByScoreDesc(s) ==
  IF s = <<>> THEN <<>>
  ELSE LET x == Head(s)
           rest == SortByScoreDesc(Tail(s))
           k == Cardinality({i \in 1..Len(rest) :
                               rest[i].similarityScore > x.similarityScore})
       IN SubSeq(rest, 1, k) \o <<x>> \o SubSeq(rest, k + 1, Len(rest))

\* .slice(0, n)
Slice0(s, n) == SubSeq(s, 1, IF Len(s) < n THEN Len(s) ELSE n)

\* relevantContent.map(...).sort(...).slice(0, 2)
ContentWithScores(found, m) ==
  Slice0(SortByScoreDesc([i \in 1..Len(InIdOrder(found)) |->
                            WithScore(InIdOrder(found)[i], m)]), KeepN)

\* Mutant of AfterFind: no short-circuit when nothing was found.
AfterFindAlwaysGenerate(kept) == "generate"

\* if (contentWithScores.length === 0) { res.json({..., results: []}); return; }
AfterFind(kept) == IF Len(kept) = 0 THEN "done" ELSE "generate"

\* The request arrives; a blank query is answered 400 before any call.
SearchStart(u, q) ==
  /\ srch.pc = "idle"
  /\ srch' = IF IsBlankQuery(q)
               THEN [srch EXCEPT !.pc = "done", !.user = u, !.query = q,
                                 !.status = 400, !.resp = "validation"]
               ELSE [srch EXCEPT !.pc = "embed", !.user = u, !.query = q]
  /\ UNCHANGED <<contentVars, shareVars, ingestVars>>

\* await getEmbedding(query)
SearchEmbed(ok) ==
  /\ srch.pc = "embed"
  /\ srch' = IF ok
               THEN [srch EXCEPT !.pc = "query", !.calls = @ \cup {"embed"}]
               ELSE [srch EXCEPT !.pc = "done", !.calls = @ \cup {"embed"},
                                 !.failedAt = "embed", !.status = 500,
                                 !.resp = "error"]
  /\ UNCHANGED <<contentVars, shareVars, ingestVars>>

\* await pineconeIndex.query({vector, topK: 5, includeMetadata, filter})
SearchQuery(ok, m) ==
  /\ srch.pc = "query"
  /\ srch' = IF ok
               THEN [srch EXCEPT !.pc = "find", !.calls = @ \cup {"query"},
                                 !.matches = m]
               ELSE [srch EXCEPT !.pc = "done", !.calls = @ \cup {"query"},
                                 !.failedAt = "query", !.status = 500,
                                 !.resp = "error"]
  /\ UNCHANGED <<contentVars, shareVars, ingestVars>>

\* await ContentModel.find(...); score, sort and truncate; short-circuit.
SearchFind(ok) ==
  /\ srch.pc = "find"
  /\ srch' =
       IF ok
         THEN LET kept == ContentWithScores(
                            Hydrate(contents, DOMAIN srch.matches, srch.user),
                            srch.matches)
              IN IF AfterFind(kept) = "done"
                   THEN [srch EXCEPT !.pc = "done", !.calls = @ \cup {"find"},
                                     !.kept = kept, !.status = 200,
                                     !.resp = "empty"]
                   ELSE [srch EXCEPT !.pc = "generate",
                                     !.calls = @ \cup {"find"}, !.kept = kept]
         ELSE [srch EXCEPT !.pc = "done", !.calls = @ \cup {"find"},
                           !.failedAt = "find", !.status = 500, !.resp = "error"]
  /\ UNCHANGED <<contentVars, shareVars, ingestVars>>

\* await model.generateContent(...); res.json({relevantContent, answer})
SearchGenerate(ok) ==
  /\ srch.pc = "generate"
  /\ srch' = IF ok
               THEN [srch EXCEPT !.pc = "done", !.calls = @ \cup {"generate"},
                                 !.status = 200, !.resp = "found"]
               ELSE [srch EXCEPT !.pc = "done", !.calls = @ \cup {"generate"},
                                 !.failedAt = "generate", !.status = 500,
                                 !.resp = "error"]
  /\ UNCHANGED <<contentVars, shareVars, ingestVars>>

SearchNext ==
  \/ \E u \in Users, q \in Queries : SearchStart(u, q)
  \/ \E ok \in BOOLEAN : SearchEmbed(ok)
  \/ \E m \in QueryResults : SearchQuery(TRUE, m)
  \/ SearchQuery(FALSE, <<>>)
  \/ \E ok \in BOOLEAN : SearchFind(ok)
  \/ \E ok \in BOOLEAN : SearchGenerate(ok)

InitSearch ==
  /\ contents = SeedContents
  /\ vectors = SeedVectors
  /\ nextId = MaxSeed + 1
  /\ add = [r \in AddReqs |-> IdleAdd]
  /\ del = [r \in DelReqs |-> IdleDel]
  /\ srch = IdleSearch
  /\ InitShareVars
  /\ InitIngestVars

\* One search request of any user with any query, against a populated store.
SpecSearch == InitSearch /\ [][SearchNext]_vars

\* ---------------------------------------------- POST /api/v1/brain/share handler
\* The documents of LinkModel that match {userId: u}, in the store's order.
UserLinks(u) == SelectSeq(links, LAMBDA l : l.userId = u)

\* The documents of LinkModel that match {hash: h}, in the store's order.
HashLinks(h) == SelectSeq(links, LAMBDA l : l.hash = h)

\* random(10): an opaque hash; the model lets it return any value no live
\* ShareLink holds.
RandomHashes == Hashes \ {links[i].hash : i \in 1..Len(links)}

\* LinkModel.create({userId, hash}): inserts one document.
LinkCreate(ls, u, h) == Append(ls, [userId |-> u, hash |-> h])

\* null, as a result of findOne
NoLink == [userId |-> 0, hash |-> 0]

\* LinkModel.findOne({userId}): the first matching document, or null.
LinkFindOneByUser(u) ==
  IF UserLinks(u) = <<>> THEN NoLink ELSE Head(UserLinks(u))

\* LinkModel.deleteOne({userId}): removes the first matching document, if any.
LinkDeleteOne(ls, u) ==
  IF \A i \in 1..Len(ls) : ls[i].userId # u THEN ls
  ELSE LET k == CHOOSE i \in 1..Len(ls) :
                  /\ ls[i].userId = u
                  /\ \A j \in 1..(i - 1) : ls[j].userId # u
       IN SubSeq(ls, 1, k - 1) \o SubSeq(ls, k + 1, Len(ls))

\* LinkModel.findOne({hash}): the first matching document, or null.
LinkFindOneByHash(h) ==
  IF HashLinks(h) = <<>> THEN NoLink ELSE Head(HashLinks(h))

\* History kept when request r answers res.json({hash: h}) to user u: h is
\* the hash u was last given, and h has been handed out (again), so it is no
\* longer among the hashes a disable has revoked or is about to revoke.
Answered(r, rec) ==
  [x \in ShareReqs |->
     IF x = r THEN rec ELSE [shr[x] EXCEPT !.snap = @ \ {rec.hash}]]

HandOut(u, h) ==
  /\ lastHash' = [lastHash EXCEPT ![u] = h]
  /\ handed' = [handed EXCEPT ![u] = @ \cup {h}]
  /\ revoked' = [v \in Users |-> revoked[v] \ {h}]
  /\ get' = IF get.hash = h /\ get.pc # "done"
              THEN [get EXCEPT !.revoked = FALSE] ELSE get

\* History kept when a {share:false} request of user u arrives or acts: it
\* comes between u's earlier and later enable requests.
ForgetPrev(r, rec) ==
  [x \in ShareReqs |->
     IF x = r THEN rec
     ELSE IF shr[x].user = rec.user THEN [shr[x] EXCEPT !.prev = 0] ELSE shr[x]]

\* The request arrives: const share = req.body.share.
ShareStart(r, u, share) ==
  /\ MayStart(shr, r)
  /\ IF share
       THEN /\ shr' = [shr EXCEPT ![r] = [@ EXCEPT !.pc = "find", !.user = u,
                          !.share = TRUE, !.prev = lastHash[u]]]
            /\ UNCHANGED lastHash
       ELSE /\ shr' = ForgetPrev(r, [shr[r] EXCEPT !.pc = "delete", !.user = u,
                                              !.snap = handed[u]])
            /\ lastHash' = [lastHash EXCEPT ![u] = 0]
  /\ UNCHANGED <<links, get, handed, revoked>>
  /\ UNCHANGED <<contentVars, searchVars, ingestVars>>

\* await LinkModel.findOne({userId}); if (content) res.json({hash: content.hash}).
\* A rejection is not caught: the request is never answered.
ShareFind(r, ok) ==
  /\ shr[r].pc = "find"
  /\ IF ok
       THEN LET l == LinkFindOneByUser(shr[r].user)
            IN IF l = NoLink
                THEN /\ shr' = [shr EXCEPT ![r] = [@ EXCEPT !.pc = "create"]]
                     /\ UNCHANGED <<get, lastHash, handed, revoked>>
                ELSE /\ shr' = Answered(r, [shr[r] EXCEPT !.pc = "done",
                                                 !.hash = l.hash, !.status = 200])
                     /\ HandOut(shr[r].user, l.hash)
       ELSE /\ shr' = [shr EXCEPT ![r] = [@ EXCEPT !.pc = "crashed"]]
            /\ UNCHANGED <<get, lastHash, handed, revoked>>
  /\ UNCHANGED links
  /\ UNCHANGED <<contentVars, searchVars, ingestVars>>

\* const hash = random(10); await LinkModel.create({userId, hash});
\* res.json({hash}).
ShareCreate(r, ok) ==
  /\ shr[r].pc = "create"
  /\ IF ok
       THEN \E h \in RandomHashes :
              /\ links' = LinkCreate(links, shr[r].user, h)
              /\ shr' = Answered(r, [shr[r] EXCEPT !.pc = "done", !.hash = h,
                                            !.created = TRUE, !.status = 200])
              /\ HandOut(shr[r].user, h)
       ELSE /\ shr' = [shr EXCEPT ![r] = [@ EXCEPT !.pc = "crashed"]]
            /\ UNCHANGED <<links, get, lastHash, handed, revoked>>
  /\ UNCHANGED <<contentVars, searchVars, ingestVars>>

\* await LinkModel.deleteOne({userId}); res.json({message: "Removed link"}).
ShareDelete(r, ok) ==
  /\ shr[r].pc = "delete"
  /\ IF ok
       THEN /\ links' = LinkDeleteOne(links, shr[r].user)
            /\ shr' = ForgetPrev(r, [shr[r] EXCEPT !.pc = "done", !.status = 200])
            /\ lastHash' = [lastHash EXCEPT ![shr[r].user] = 0]
            /\ revoked' = [revoked EXCEPT ![shr[r].user] = @ \cup shr[r].snap]
       ELSE /\ shr' = [shr EXCEPT ![r] = [@ EXCEPT !.pc = "crashed"]]
            /\ UNCHANGED <<links, lastHash, revoked>>
  /\ UNCHANGED <<get, handed>>
  /\ UNCHANGED <<contentVars, searchVars, ingestVars>>

\* ------------------------------------------- GET /api/v1/brain/:shareLink handler
\* The request arrives: const hash = req.params.shareLink.  The history flag
\* says whether a completed disable has revoked that hash.
GetStart(h) ==
  /\ get.pc = "idle"
  /\ get' = [get EXCEPT !.pc = "findLink", !.hash = h,
                        !.revoked = \E u \in Users : h \in revoked[u]]
  /\ UNCHANGED <<links, shr, lastHash, handed, revoked>>
  /\ UNCHANGED <<contentVars, searchVars, ingestVars>>

\* await LinkModel.findOne({hash}); if (!link) res.status(411).
GetFindLink(ok) ==
  /\ get.pc = "findLink"
  /\ IF ok
       THEN LET l == LinkFindOneByHash(get.hash)
            IN get' = IF l = NoLink
                       THEN [get EXCEPT !.pc = "done", !.status = 411]
                       ELSE [get EXCEPT !.pc = "findContent", !.owner = l.userId]
       ELSE get' = [get EXCEPT !.pc = "crashed"]
  /\ UNCHANGED <<links, shr, lastHash, handed, revoked>>
  /\ UNCHANGED <<contentVars, searchVars, ingestVars>>

\* await ContentModel.find({userId: link.userId})
GetFindContent(ok) ==
  /\ get.pc = "findContent"
  /\ get' = IF ok
              THEN [get EXCEPT !.pc = "findUser",
                      !.content = {c \in contents : c.userId = get.owner}]
              ELSE [get EXCEPT !.pc = "crashed"]
  /\ UNCHANGED <<links, shr, lastHash, handed, revoked>>
  /\ UNCHANGED <<contentVars, searchVars, ingestVars>>

\* await UserModel.findOne({_id: link.userId}); 411 if none, else
\* res.json({username, content}).
GetFindUser(ok) ==
  /\ get.pc = "findUser"
  /\ get' = IF ok
              THEN IF get.owner \in Users
                     THEN [get EXCEPT !.pc = "done", !.status = 200]
                     ELSE [get EXCEPT !.pc = "done", !.status = 411,
                                      !.content = {}]
              ELSE [get EXCEPT !.pc = "crashed", !.content = {}]
  /\ UNCHANGED <<links, shr, lastHash, handed, revoked>>
  /\ UNCHANGED <<contentVars, searchVars, ingestVars>>

ShareNext ==
  \/ \E r \in ShareReqs, u \in Users, share \in BOOLEAN : ShareStart(r, u, share)
  \/ \E r \in ShareReqs, ok \in BOOLEAN : ShareFind(r, ok)
  \/ \E r \in ShareReqs, ok \in BOOLEAN : ShareCreate(r, ok)
  \/ \E r \in ShareReqs, ok \in BOOLEAN : ShareDelete(r, ok)
  \/ \E h \in Hashes : GetStart(h)
  \/ \E ok \in BOOLEAN : GetFindLink(ok)
  \/ \E ok \in BOOLEAN : GetFindContent(ok)
  \/ \E ok \in BOOLEAN : GetFindUser(ok)

InitShare ==
  /\ contents = SeedContents
  /\ vectors = SeedVectors
  /\ nextId = MaxSeed + 1
  /\ add = [r \in AddReqs |-> IdleAdd]
  /\ del = [r \in DelReqs |-> IdleDel]
  /\ srch = IdleSearch
  /\ InitShareVars
  /\ InitIngestVars

\* Share requests of all users and one public read, interleaved at every
\* await, against a populated content store.
SpecShare == InitShare /\ [][ShareNext]_vars

\* --------------------------------------------------- image URLs (WHATWG URL)
\* A URL string is represented by what the URL parser sees in it: the scheme
\* as written ("" when the string has none, i.e. a relative reference) and
\* whether the rest of the string parses.
Schemes == {"", "https", "blob", "BLOB"}
UrlStrings == [scheme : Schemes, wellFormed : BOOLEAN]

\* The page a scrape navigates to: after a successful goto it is an absolute
\* https URL.
PageUrl == [scheme |-> "https", wellFormed |-> TRUE]

\* The parser lower-cases the scheme when it serialises a URL.
LowerCase(s) == IF s = "BLOB" THEN "blob" ELSE s

\* new URL(u) succeeds: u is absolute and parses.
ParsesAsUrl(u) == u.scheme \in Schemes \ {""} /\ u.wellFormed

\* u.startsWith('blob:'), a case-sensitive comparison.
StartsWithBlob(u) == u.scheme = "blob"

\* Mutant of isValidImageUrl: blob: URLs are not skipped.
IsValidImageUrlKeepBlob(u) ==
  IF u = NullUrl \/ u = EmptyString THEN FALSE
  ELSE ParsesAsUrl(u)

\* isValidImageUrl(url)
isValidImageUrl(u) ==
  IF u = NullUrl \/ u = EmptyString THEN FALSE
  ELSE IF StartsWithBlob(u) THEN FALSE
  ELSE ParsesAsUrl(u)

\* new URL(m, base) throws: m does not parse, as an absolute URL or against base.
ResolveThrows(m, base) == ~m.wellFormed \/ ~ParsesAsUrl(base)

\* new URL(m, base).toString(): m itself when absolute, else m on base's
\* scheme and origin; serialised with a lower-case scheme.
ResolveUrl(m, base) ==
  [scheme |-> LowerCase(IF m.scheme = "" THEN base.scheme ELSE m.scheme),
   wellFormed |-> TRUE]

\* ------------------------------------------------------------- scrapeUrl
\* What page.title() and the body extraction can yield.
PageTitles == {"", "St"}
PageContents == {"", "Sc"}
\* What the meta-image lookup can yield: an attribute value, or null.
MetaImages == UrlStrings \cup {NullUrl}

\* A thrown value: an Error or not, and what its message contains.
Thrown == [isError : BOOLEAN, timeout : BOOLEAN, detached : BOOLEAN]
\* The TypeError ("Invalid URL") thrown by new URL.
InvalidUrlError == [isError |-> TRUE, timeout |-> FALSE, detached |-> FALSE]

NavigationFailed ==
  [title |-> "Navigation Failed",
   content |-> "Could not access the page content.", imageUrl |-> NullUrl]
PageClosed ==
  [title |-> "Page Closed Unexpectedly",
   content |-> "The browser page was closed during navigation.",
   imageUrl |-> NullUrl]
ScrapingTimeout ==
  [title |-> "Scraping Failed - Timeout",
   content |-> "The page took too long to load.", imageUrl |-> NullUrl]
PageDetached ==
  [title |-> "Scraping Failed - Page Detached",
   content |-> "The website may be using anti-scraping measures.",
   imageUrl |-> NullUrl]
FailedToScrape(e) ==
  [title |-> "Failed to scrape",
   content |-> IF e.isError THEN "Error: message" ELSE "Error: Unknown error",
   imageUrl |-> NullUrl]

\* The outer catch: the record returned for a thrown value.
Catch(e) ==
  IF e.isError /\ e.timeout THEN ScrapingTimeout
  ELSE IF e.isError /\ e.detached THEN PageDetached
  ELSE FailedToScrape(e)

SentinelTitles ==
  {"Navigation Failed", "Page Closed Unexpectedly", "Scraping Failed - Timeout",
   "Scraping Failed - Page Detached", "Failed to scrape"}

\* scrapeUrl(url) is called and runs to its first await, puppeteer.launch.
Called == [IdleScrape EXCEPT !.pc = "launch"]

\* A step threw into the outer catch: the catch picks the record to return,
\* then the finally block runs.
Caught(s, step, e) ==
  [s EXCEPT !.pc = "finally", !.failed = @ \cup {step}, !.result = Catch(e)]

ScrapeStart ==
  /\ scr.pc = "idle"
  /\ scr' = Called
  /\ UNCHANGED <<contentVars, searchVars, shareVars, ing>>

\* browser = await puppeteer.launch({...})
ScrapeLaunch(ok, e) ==
  /\ scr.pc = "launch"
  /\ scr' = IF ok THEN [scr EXCEPT !.pc = "newPage", !.browser = "open"]
                  ELSE Caught(scr, "launch", e)
  /\ UNCHANGED <<contentVars, searchVars, shareVars, ing>>

\* const page = await browser.newPage(), then the user agent and timeouts.
ScrapeNewPage(ok, e) ==
  /\ scr.pc = "newPage"
  /\ scr' = IF ok THEN [scr EXCEPT !.pc = "goto"]
                  ELSE Caught(scr, "newPage", e)
  /\ UNCHANGED <<contentVars, searchVars, shareVars, ing>>

\* Mutant of ScrapeGoto: no inner try around the navigation, its error reaches
\* the outer catch.
ScrapeGotoUncaught(ok, e, closed) ==
  /\ scr.pc = "goto"
  /\ scr' =
       IF ~ok THEN [Caught(scr, "goto", e) EXCEPT
                      !.navTimeout = e.isError /\ e.timeout]
       ELSE IF closed THEN [scr EXCEPT !.pc = "finally", !.result = PageClosed]
       ELSE [scr EXCEPT !.pc = "title", !.title = "No title available"]
  /\ UNCHANGED <<contentVars, searchVars, shareVars, ing>>

\* await page.goto(url, {timeout: 60000}) in its own try: any navError returns
\* the navigation sentinel; then page.isClosed() returns the page-closed one.
ScrapeGoto(ok, e, closed) ==
  /\ scr.pc = "goto"
  /\ scr' =
       IF ~ok THEN [scr EXCEPT !.pc = "finally", !.failed = @ \cup {"goto"},
                               !.navTimeout = e.isError /\ e.timeout,
                               !.result = NavigationFailed]
       ELSE IF closed THEN [scr EXCEPT !.pc = "finally", !.result = PageClosed]
       ELSE [scr EXCEPT !.pc = "title", !.title = "No title available"]
  /\ UNCHANGED <<contentVars, searchVars, shareVars, ing>>

\* title = await page.title() in its own try.
ScrapeTitle(ok, t) ==
  /\ scr.pc = "title"
  /\ scr' = IF ok THEN [scr EXCEPT !.pc = "image", !.title = t]
                  ELSE [scr EXCEPT !.pc = "image", !.failed = @ \cup {"title"}]
  /\ UNCHANGED <<contentVars, searchVars, shareVars, ing>>

\* metaImage = await page.evaluate(...) in its own try.
ScrapeImage(ok, m) ==
  /\ scr.pc = "image"
  /\ scr' = IF ok THEN [scr EXCEPT !.pc = "resolve", !.metaImage = m]
                  ELSE [scr EXCEPT !.pc = "resolve", !.failed = @ \cup {"image"}]
  /\ UNCHANGED <<contentVars, searchVars, shareVars, ing>>

\* imageUrl = metaImage ? new URL(metaImage, url).toString() : null, outside
\* the per-field try blocks, so a throw reaches the outer catch; then
\* finalImageUrl = isValidImageUrl(imageUrl) ? imageUrl : null.
ScrapeResolve ==
  /\ scr.pc = "resolve"
  /\ scr' =
       IF scr.metaImage = NullUrl
         THEN [scr EXCEPT !.pc = "content",
                          !.content = "Failed to extract content from page"]
       ELSE IF ResolveThrows(scr.metaImage, PageUrl)
         THEN Caught(scr, "resolve", InvalidUrlError)
       ELSE LET imageUrl == ResolveUrl(scr.metaImage, PageUrl)
            IN [scr EXCEPT !.pc = "content",
                           !.finalImageUrl =
                              IF isValidImageUrl(imageUrl) THEN imageUrl
                                                           ELSE NullUrl,
                           !.content = "Failed to extract content from page"]
  /\ UNCHANGED <<contentVars, searchVars, shareVars, ing>>

\* content = await page.evaluate(...) in its own try; then
\* return {title, content, imageUrl: finalImageUrl}.
ScrapeContent(ok, c) ==
  /\ scr.pc = "content"
  /\ LET s == IF ok THEN [scr EXCEPT !.content = c]
                    ELSE [scr EXCEPT !.failed = @ \cup {"content"}]
     IN scr' = [s EXCEPT !.pc = "finally",
                         !.result = [title |-> s.title, content |-> s.content,
                                     imageUrl |-> s.finalImageUrl]]
  /\ UNCHANGED <<contentVars, searchVars, shareVars, ing>>

\* Mutant of ScrapeFinally: browser.close() is awaited without its .catch, so
\* a rejected close leaves the finally block as an exception.
ScrapeFinallyRethrow(ok) ==
  /\ scr.pc = "finally"
  /\ scr' =
       IF scr.browser = "none" THEN [scr EXCEPT !.pc = "returned"]
       ELSE IF ok THEN [scr EXCEPT !.pc = "returned", !.browser = "closed"]
       ELSE [scr EXCEPT !.pc = "returned", !.browser = "closeFailed",
                        !.failed = @ \cup {"close"}, !.raised = TRUE]
  /\ UNCHANGED <<contentVars, searchVars, shareVars, ing>>

\* Mutant of ScrapeFinally: the browser is closed on the success path only.
ScrapeFinallyOnSuccess(ok) ==
  /\ scr.pc = "finally"
  /\ scr' =
       IF scr.browser = "none" \/ scr.result.title \in SentinelTitles
         THEN [scr EXCEPT !.pc = "returned"]
       ELSE IF ok THEN [scr EXCEPT !.pc = "returned", !.browser = "closed"]
       ELSE [scr EXCEPT !.pc = "returned", !.browser = "closeFailed",
                        !.failed = @ \cup {"close"}, !.closeLogged = TRUE]
  /\ UNCHANGED <<contentVars, searchVars, shareVars, ing>>

\* finally { if (browser) await browser.close().catch(console.error) }; the
\* pending record is then returned to the caller.
ScrapeFinally(ok) ==
  /\ scr.pc = "finally"
  /\ scr' =
       IF scr.browser = "none" THEN [scr EXCEPT !.pc = "returned"]
       ELSE IF ok THEN [scr EXCEPT !.pc = "returned", !.browser = "closed"]
       ELSE [scr EXCEPT !.pc = "returned", !.browser = "closeFailed",
                        !.failed = @ \cup {"close"}, !.closeLogged = TRUE]
  /\ UNCHANGED <<contentVars, searchVars, shareVars, ing>>

ScrapeSteps ==
  \/ \E ok \in BOOLEAN, e \in Thrown : ScrapeLaunch(ok, e)
  \/ \E ok \in BOOLEAN, e \in Thrown : ScrapeNewPage(ok, e)
  \/ \E ok \in BOOLEAN, e \in Thrown, closed \in BOOLEAN : ScrapeGoto(ok, e, closed)
  \/ \E ok \in BOOLEAN, t \in PageTitles : ScrapeTitle(ok, t)
  \/ \E ok \in BOOLEAN, m \in MetaImages : ScrapeImage(ok, m)
  \/ ScrapeResolve
  \/ \E ok \in BOOLEAN, c \in PageContents : ScrapeContent(ok, c)
  \/ \E ok \in BOOLEAN : ScrapeFinally(ok)

ScrapeNext == ScrapeStart \/ ScrapeSteps

\* ------------------------- POST /api/v1/content: the scrape/merge prologue
\* One ingestion request followed field by field, from the request body to
\* the ContentItem and the VectorRecord metadata it writes.
\* req.body.title and req.body.content: absent, empty or a text.
CallerTitles == {Undefined, "", "Ct"}
CallerContents == {Undefined, "", "Cc"}
ContentTypes == {"Url", "Note"}
CallerLinks == {Undefined, "", "https://site/page"}

\* JavaScript truthiness of an optional string.
Truthy(x) == x # Undefined /\ x # ""

\* x || ""
OrEmpty(x) == IF Truthy(x) THEN x ELSE ""

\* imageUrl || ""
OrEmptyString(u) == IF u = NullUrl THEN EmptyString ELSE u

\* Mutant of MergeTitle: the scraped title always replaces the caller's.
MergeTitleOverwrite(titleToSave, scraped) ==
  IF Truthy(scraped.title) THEN scraped.title ELSE titleToSave

\* if (!titleToSave && scrapedData.title) titleToSave = scrapedData.title
MergeTitle(titleToSave, scraped) ==
  IF ~Truthy(titleToSave) /\ Truthy(scraped.title) THEN scraped.title
  ELSE titleToSave

\* if (scrapedData.content) contentToSave = scrapedData.content
MergeContent(contentToSave, scraped) ==
  IF Truthy(scraped.content) THEN scraped.content ELSE contentToSave

\* if (scrapedData.imageUrl && isValidImageUrl(scrapedData.imageUrl))
\*   imageUrl = scrapedData.imageUrl
MergeImage(imageUrl, scraped) ==
  IF scraped.imageUrl # NullUrl /\ isValidImageUrl(scraped.imageUrl)
    THEN scraped.imageUrl
    ELSE imageUrl

\* The request arrives: contentToSave = content || "", titleToSave =
\* title || "", imageUrl = null; a Url with a link calls scrapeUrl(link).
IngestStart(type, link, title, content) ==
  /\ ing.pc = "idle"
  /\ scr.pc = "idle"
  /\ LET scrapes == type = "Url" /\ Truthy(link)
     IN /\ ing' = [ing EXCEPT !.pc = IF scrapes THEN "scrape" ELSE "create",
                              !.type = type, !.link = link,
                              !.title = title, !.content = content,
                              !.contentToSave = OrEmpty(content),
                              !.titleToSave = OrEmpty(title),
                              !.imageUrl = NullUrl]
        /\ scr' = IF scrapes THEN Called ELSE scr
  /\ UNCHANGED <<contentVars, searchVars, shareVars>>

\* scrapeUrl has returned scrapedData: the three merges.
IngestMerge ==
  /\ ing.pc = "scrape"
  /\ scr.pc = "returned"
  /\ ing' = [ing EXCEPT !.pc = "create", !.scraped = TRUE,
                        !.contentToSave = MergeContent(@, scr.result),
                        !.titleToSave = MergeTitle(@, scr.result),
                        !.imageUrl = MergeImage(@, scr.result)]
  /\ UNCHANGED <<contentVars, searchVars, shareVars, scr>>

\* await ContentModel.create({title: titleToSave, content: contentToSave,
\* imageUrl, ...}); a rejection lands in the catch (500).
IngestCreate(ok) ==
  /\ ing.pc = "create"
  /\ ing' = IF ok
       THEN [ing EXCEPT !.pc = "embed", !.persisted = TRUE,
                        !.saved = [title |-> ing.titleToSave,
                                   content |-> ing.contentToSave,
                                   imageUrl |-> ing.imageUrl]]
       ELSE [ing EXCEPT !.pc = "done", !.status = 500]
  /\ UNCHANGED <<contentVars, searchVars, shareVars, scr>>

\* await getEmbedding(textForEmbedding); a rejection lands in the catch (500).
IngestEmbed(ok) ==
  /\ ing.pc = "embed"
  /\ ing' = IF ok THEN [ing EXCEPT !.pc = "upsert"]
                  ELSE [ing EXCEPT !.pc = "done", !.status = 500]
  /\ UNCHANGED <<contentVars, searchVars, shareVars, scr>>

\* await pineconeIndex.upsert([{metadata: {title, imageUrl: imageUrl || ""}}]);
\* then res.status(200).json({imageUrl: imageUrl || null}).
IngestUpsert(ok) ==
  /\ ing.pc = "upsert"
  /\ ing' = IF ok
       THEN [ing EXCEPT !.pc = "done", !.indexed = TRUE,
                        !.metadata = [title |-> ing.titleToSave,
                                      imageUrl |-> OrEmptyString(ing.imageUrl)],
                        !.status = 200, !.respImage = ing.imageUrl]
       ELSE [ing EXCEPT !.pc = "done", !.status = 500]
  /\ UNCHANGED <<contentVars, searchVars, shareVars, scr>>

IngestNext ==
  \/ \E type \in ContentTypes, link \in CallerLinks,
        title \in CallerTitles, content \in CallerContents :
          IngestStart(type, link, title, content)
  \/ ScrapeSteps
  \/ IngestMerge
  \/ \E ok \in BOOLEAN : IngestCreate(ok)
  \/ \E ok \in BOOLEAN : IngestEmbed(ok)
  \/ \E ok \in BOOLEAN : IngestUpsert(ok)

\* One scrapeUrl call, every step of which may fail.
SpecScrape == Init /\ [][ScrapeNext]_vars

\* One ingestion request, with the scrape it awaits.
SpecIngest == Init /\ [][IngestNext]_vars

\* ------------------------------------ ingestion and deletion by the owner
\* A DELETE /content/:contentId sent by the user who owns item c, while the
\* item exists and no other delete of it has been sent.
OwnerDelStart(r, u, c) ==
  /\ \E i \in contents : i.id = c /\ i.userId = u
  /\ \A d \in DelReqs : del[d].pc = "idle" \/ del[d].cid # c
  /\ DelStart(r, u, c)

\* The one user whose requests are followed.
Owner == CHOOSE u \in Users : TRUE

OwnerNext ==
  \/ \E r \in AddReqs : AddStart(r, Owner)
  \/ \E r \in AddReqs, ok \in BOOLEAN : AddCreate(r, ok)
  \/ \E r \in AddReqs, ok \in BOOLEAN : AddEmbed(r, ok)
  \/ \E r \in AddReqs, ok \in BOOLEAN : AddUpsert(r, ok)
  \/ \E r \in DelReqs, c \in ItemIds : OwnerDelStart(r, Owner, c)
  \/ \E r \in DelReqs, ok \in BOOLEAN : DelMongo(r, ok)
  \/ \E r \in DelReqs, ok \in BOOLEAN : DelPinecone(r, ok)

\* Ingestion requests, and deletion requests each sent by its item's owner.
SpecOwner == Init /\ [][OwnerNext]_vars

\* ================================================================ claims

\* C1 (as claimed): a DELETE /content/:id step of user A on an id whose
\* ContentItem is owned by another user deletes nothing: neither the primary
\* store nor the vector index changes.
C1_ForeignDeleteDeletesNothing ==
  [][\A r \in DelReqs :
       (/\ del'[r] # del[r]
        /\ \E c \in contents : c.id = del'[r].cid /\ c.userId # del'[r].user)
       => (contents' = contents /\ vectors' = vectors)]_vars

\* C2 (as claimed): a delete whose primary-store delete succeeded and whose
\* vector-index delete failed is still answered 200.
C2_VectorDeleteFailureStillSucceeds ==
  \A r \in DelReqs :
    (del[r].pc = "done" /\ del[r].failedAt = "pinecone") => del[r].status = 200

\* The embedder call of request r has been made and has returned or thrown.
EmbedderCalled(r) ==
  \/ add[r].pc = "upsert"
  \/ add[r].pc = "done" /\ add[r].failedAt \in {"none", "embed", "upsert"}

\* C3 (as claimed): for a completed addContent request that created
\* ContentItem i, VectorRecord i exists if and only if the request got as far
\* as calling the embedder.
C3_VectorIffEmbedderCalled ==
  \A r \in AddReqs :
    (add[r].pc = "done" /\ add[r].cid # 0)
      => (HasVector(add[r].cid) <=> EmbedderCalled(r))

\* C3 (amended): under addContent requests only, VectorRecord i exists if and
\* only if the request that created ContentItem i had both its embed call and
\* its vector upsert succeed; a request whose embed call or upsert failed
\* leaves ContentItem i present with no VectorRecord i.
C3_VectorIffUpsertSucceeded ==
  /\ \A v \in vectors : \E r \in AddReqs : add[r].cid = v.id
  /\ \A r \in AddReqs :
       add[r].cid # 0 =>
         (HasVector(add[r].cid)
            <=> (add[r].pc = "done" /\ add[r].failedAt = "none"))
  /\ \A r \in AddReqs :
       add[r].failedAt \in {"embed", "upsert"} =>
         (HasItem(add[r].cid) /\ ~HasVector(add[r].cid))

\* C3 witness: one request failed in its embed call and left a dangling
\* ContentItem, while another request completed and has its VectorRecord.
C3_Witness ==
  \E r1, r2 \in AddReqs :
    /\ add[r1].failedAt = "embed" /\ HasItem(add[r1].cid)
    /\ add[r2].pc = "done" /\ add[r2].failedAt = "none" /\ HasVector(add[r2].cid)

\* C4: in addContent the ContentItem is in the primary store before the
\* embedder call and before the vector upsert; when the embed call or the
\* upsert fails the response is 500, the ContentItem written earlier is still
\* in the store, and no response carrying a contentId is sent.
C4_PersistFirstThen500 ==
  \A r \in AddReqs :
    /\ add[r].pc \in {"embed", "upsert"} =>
         (add[r].cid # 0 /\ HasItem(add[r].cid) /\ ~HasVector(add[r].cid))
    /\ add[r].failedAt \in {"embed", "upsert"} =>
         /\ add[r].pc = "done"
         /\ add[r].status = 500
         /\ add[r].respId = 0
         /\ HasItem(add[r].cid)

\* C4 witness: both failure points have been hit after the item was written.
C4_Witness ==
  \E r1, r2 \in AddReqs :
    /\ add[r1].failedAt = "embed" /\ add[r1].status = 500 /\ HasItem(add[r1].cid)
    /\ add[r2].failedAt = "upsert" /\ add[r2].status = 500 /\ HasItem(add[r2].cid)

\* C5: every entry of the relevantContent a search returns to user U is a
\* ContentItem of the primary store whose owner is U, whatever ids the vector
\* index returned.
C5_ResultsOwnedByCaller ==
  \A i \in 1..Len(srch.kept) :
    /\ srch.kept[i].userId = srch.user
    /\ [id |-> srch.kept[i].id, userId |-> srch.kept[i].userId] \in contents

\* C5 witness: the index returned the id of another user's ContentItem and
\* the request was answered with a non-empty relevantContent.
C5_Witness ==
  /\ srch.resp = "found"
  /\ Len(srch.kept) > 0
  /\ \E c \in contents : c.id \in DOMAIN srch.matches /\ c.userId # srch.user

\* The vector query of the request has returned (rather than thrown).
QueryReturned ==
  "query" \in srch.calls /\ srch.failedAt # "query"

\* C6: the generative model is invoked only when at least one hydrated item
\* survived rank-and-truncate; a request whose vector query returned zero
\* matches never invokes it and, once its primary-store read has returned, is
\* answered 200 with an empty results list.
C6_NoMatchesNoGeneration ==
  /\ (srch.pc = "generate" \/ "generate" \in srch.calls) => Len(srch.kept) >= 1
  /\ (QueryReturned /\ DOMAIN srch.matches = {}) =>
       /\ "generate" \notin srch.calls
       /\ srch.pc # "generate"
       /\ (srch.pc = "done" /\ srch.failedAt = "none") =>
            (srch.status = 200 /\ srch.resp = "empty" /\ srch.kept = <<>>)

\* C6 witness: a request whose vector query returned zero matches has been
\* answered.
C6_Witness ==
  /\ QueryReturned /\ DOMAIN srch.matches = {}
  /\ srch.pc = "done" /\ srch.resp = "empty"

\* The query is missing, empty or consists only of whitespace.
OnlyWhitespace(q) ==
  ~q.present \/ \A i \in 1..Len(q.text) : q.text[i] = " "

\* C7: a search request whose query is missing, empty or whitespace-only is
\* answered 400 and makes no embedder call, no vector-index query, no
\* primary-store read and no generative-model call; any other query gets past
\* validation.
C7_BlankQueryRejected ==
  srch.pc # "idle" =>
    IF OnlyWhitespace(srch.query)
      THEN /\ srch.pc = "done"
           /\ srch.status = 400
           /\ srch.calls = {}
      ELSE srch.status # 400

\* C7 witness: a query of two spaces has been rejected.
C7_Witness ==
  /\ srch.pc = "done" /\ srch.status = 400
  /\ srch.query.present /\ Len(srch.query.text) = 2

\* C8 (as claimed): in every reachable state the ShareLink store holds at most
\* one ShareLink for any user.
C8_AtMostOneLinkPerUser ==
  \A u \in Users : Len(UserLinks(u)) <= 1

\* C9 (as claimed): an enable request of a user that arrives after an earlier
\* enable request of that user was answered, with no {share:false} of that user
\* in between, creates no ShareLink and returns the hash the earlier one
\* returned.
C9_EnableTwiceSameHash ==
  \A r \in ShareReqs :
    (shr[r].pc = "done" /\ shr[r].share /\ shr[r].prev # 0)
      => (shr[r].hash = shr[r].prev /\ ~shr[r].created)

\* C10 (as claimed): a GET /brain/:shareLink that arrives after a user's
\* {share:false} completed, for a hash that was returned to that user before
\* that {share:false} arrived and has not been handed out again since, is
\* answered 411 with no content.
C10_RevokedHashIs411 ==
  (get.pc = "done" /\ get.revoked) => (get.status = 411 /\ get.content = {})

\* ---------------------------------------------------------------- C11
\* The ingestion request is a Url with a link, and its item is persisted.
UrlItemPersisted == ing.persisted /\ ing.type = "Url" /\ Truthy(ing.link)

\* C11: for a Url-type addContent with a link, where the scraper returned title
\* St and content Sc: when the caller's title and content are both empty the
\* persisted item has title St and content Sc; when the caller's title is
\* non-empty the persisted title is the caller's, whatever St is.
C11_ScrapedFillsEmptyCallerTitleWins ==
  UrlItemPersisted =>
    /\ (~Truthy(ing.title) /\ ~Truthy(ing.content)) =>
          /\ ing.saved.title = scr.result.title
          /\ ing.saved.content = scr.result.content
    /\ Truthy(ing.title) => ing.saved.title = ing.title

\* An item saved from a page's title and body, the caller having sent neither.
C11_Witness ==
  /\ UrlItemPersisted
  /\ ~Truthy(ing.title) /\ ~Truthy(ing.content)
  /\ ing.saved.title = "St" /\ ing.saved.content = "Sc"

\* ---------------------------------------------------------------- C12
\* The scrape reached the page and returned its fields, not a sentinel.
ScrapeSucceeded == scr.pc = "returned" /\ scr.result.title \notin SentinelTitles

\* C12: for a Url-type addContent whose scrape succeeds, the persisted content
\* is the scraped content unless the caller sent a non-empty content, which is
\* persisted unchanged, as a non-empty caller title is.
C12_CallerContentPersistedUnchanged ==
  (UrlItemPersisted /\ ScrapeSucceeded) =>
    /\ Truthy(ing.content) => ing.saved.content = ing.content
    /\ ~Truthy(ing.content) => ing.saved.content = scr.result.content

\* ---------------------------------------------------------------- C13
\* u is a syntactically valid absolute URL whose scheme is not blob.
ValidNonBlob(u) == ParsesAsUrl(u) /\ LowerCase(u.scheme) # "blob"

\* C13: no persisted ContentItem and no VectorRecord metadata carries a blob:
\* imageUrl; a persisted imageUrl is null or a valid absolute URL, and the
\* VectorRecord's imageUrl is that same URL or the empty string.
C13_NoBlobImagePersisted ==
  /\ ing.persisted =>
        ing.saved.imageUrl = NullUrl \/ ValidNonBlob(ing.saved.imageUrl)
  /\ ing.indexed =>
        /\ ing.metadata.imageUrl \in {ing.saved.imageUrl, EmptyString}
        /\ LowerCase(ing.metadata.imageUrl.scheme) # "blob"

\* A page offered a blob: cover image, and the item was saved and indexed
\* without it.
C13_Witness ==
  /\ ing.indexed
  /\ LowerCase(scr.metaImage.scheme) = "blob" /\ scr.metaImage.wellFormed
  /\ ing.saved.imageUrl = NullUrl
  /\ ing.metadata.imageUrl = EmptyString

\* ---------------------------------------------------------------- C14
\* Every title scrapeUrl can put in the record it returns.
ReturnedTitles == SentinelTitles \cup PageTitles \cup {"No title available"}

\* C14: scrapeUrl never raises: whatever steps fail, the call goes on to
\* return a {title, content, imageUrl} record, and a record with a sentinel
\* title has imageUrl null.
C14_AlwaysReturnsRecord ==
  /\ ~scr.raised
  /\ scr.pc \notin {"idle", "returned"} => ENABLED ScrapeSteps
  /\ scr.pc = "returned" =>
        /\ scr.result.title \in ReturnedTitles
        /\ scr.result.imageUrl = NullUrl \/ ParsesAsUrl(scr.result.imageUrl)
        /\ scr.result.title \in SentinelTitles => scr.result.imageUrl = NullUrl

\* A call that returned after the title, image and body extraction and the
\* browser close all failed.
C14_Witness ==
  /\ scr.pc = "returned"
  /\ {"title", "image", "content", "close"} \subseteq scr.failed

\* ---------------------------------------------------------------- C15
\* C15 as stated: a navigation that times out returns the timeout sentinel.
C15_NavTimeoutReturnsTimeoutSentinel ==
  (scr.pc = "returned" /\ scr.navTimeout) =>
    scr.result = ScrapingTimeout /\ ~scr.raised

\* C15, amended: a navigation that times out returns exactly the navigation
\* sentinel and does not raise; the timeout sentinel is returned only when the
\* browser launch or the page creation fails with a timeout message.
C15_NavTimeoutReturnsNavigationFailed ==
  /\ (scr.pc = "returned" /\ scr.navTimeout) =>
        scr.result = NavigationFailed /\ ~scr.raised
  /\ (scr.pc = "returned" /\ scr.result = ScrapingTimeout) =>
        /\ ~scr.navTimeout
        /\ scr.failed \cap {"launch", "newPage"} # {}

\* A call whose navigation timed out has returned.
C15_Witness ==
  /\ scr.pc = "returned"
  /\ scr.navTimeout
  /\ "goto" \in scr.failed

\* ---------------------------------------------------------------- C16
\* The call got past the navigation and the page-closed check.
ReachedExtraction ==
  /\ scr.failed \cap {"launch", "newPage", "goto"} = {}
  /\ scr.result # PageClosed

\* C16: after a successful navigation the three fields are extracted
\* independently: the returned title and image are the ones extracted
\* (the default title, or no image, when that extraction failed or the image
\* could not be resolved), and so is the body once its extraction has run.
C16_FieldsExtractedIndependently ==
  (scr.pc = "returned" /\ ReachedExtraction) =>
    /\ scr.result.title = scr.title
    /\ scr.result.imageUrl = scr.finalImageUrl
    /\ "resolve" \notin scr.failed => scr.result.content = scr.content

\* ---------------------------------------------------------------- C17
\* C17: when scrapeUrl returns, a browser it launched has been closed (the
\* close attempted and awaited) on every exit path, and a failed close has
\* been logged and not propagated.
C17_SessionClosedBeforeReturn ==
  scr.pc = "returned" =>
    /\ "launch" \notin scr.failed => scr.browser \in {"closed", "closeFailed"}
    /\ scr.browser = "closeFailed" => scr.closeLogged
    /\ ~scr.raised

\* The navigation failed, the close of the launched browser failed too, and
\* the call returned the navigation sentinel.
C17_Witness ==
  /\ scr.pc = "returned"
  /\ scr.result = NavigationFailed
  /\ scr.browser = "closeFailed"

\* ---------------------------------------------------------------- C18
\* A delete request of user u for item i has run its primary-store delete.
DeletedByOwner(i, u) ==
  \E d \in DelReqs :
    /\ del[d].cid = i /\ del[d].user = u
    /\ del[d].pc \in {"pinecone", "done"}
    /\ del[d].failedAt # "mongo"

\* A delete request for item i is between its primary-store delete and its
\* vector-index delete.
DeleteInFlight(i) ==
  \E d \in DelReqs : del[d].cid = i /\ del[d].pc = "pinecone"

====
